---- MODULE Spec2Model ----
(***************************************************************************)
(* Model of the SaaS landing backend (src/main.py): the request handlers   *)
(* read_root, test_database, signup, login and get_pricing, the request    *)
(* models SignupRequest / LoginRequest, the helper find_user_by_email and  *)
(* the password context.  The `database` module (db, get_documents,        *)
(* create_document) is imported by main.py but is not part of src/; it is  *)
(* modelled from the specification's description of the credential store.  *)
(***************************************************************************)
EXTENDS Integers, Sequences, FiniteSets, TLC

\* ------------------------------------------------------------------ bounds
NumEmails == 2
MaxPwLen == 1
NumWorkers == 2
MaxRequests == 2

\* ------------------------------------------------------------------ inputs
Email(i) == "user" \o ToString(i) \o "@example.com"
ValidEmails == {Email(i) : i \in 1..NumEmails}
InvalidEmail == "not-an-email"
RawEmails == ValidEmails \cup {InvalidEmail}
Names == {"Alice"}
\* A password is a byte string; the empty string is <<>>.
Passwords == UNION {[1..n -> {1}] : n \in 0..MaxPwLen}
Salts == {1, 2}
Workers == 1..NumWorkers

VARIABLES
    dbConfigured,   \* `db` of the database module is not None
    coll,           \* the "authuser" collection: documents in insertion order
    last,           \* the request handled last, its response, its store calls
    accepted,       \* history: the signups answered "Signup successful"
    inflight,       \* per worker: the request it is handling (concurrent runs)
    started         \* number of requests started (concurrent runs)

vars == <<dbConfigured, coll, last, accepted, inflight, started>>

\* ------------------------------------------------------------ Python values
None == [py |-> "None"]
Truthy(x) == x # None

\* dict.get(key, default)
Get(d, key, default) == IF key \in DOMAIN d THEN d[key] ELSE default

COLL == "authuser"

\* str() of a store-generated identifier
Str(oid) == "oid-" \o ToString(oid)

\* ------------------------------------------------------- password context
\* bcrypt digest of the bytes of `password` under `salt`
RECURSIVE Digest(_, _)
Digest(salt, password) ==
    IF password = <<>> THEN salt
    ELSE Digest(salt, SubSeq(password, 1, Len(password) - 1)) * 2
         + password[Len(password)]

pwd_hash(password, salt) ==
    [scheme |-> "bcrypt", salt |-> salt, digest |-> Digest(salt, password)]

\* the value standing for the string "" where a hash is expected
EmptyHash == [scheme |-> ""]

pwd_verify(password, hash) ==
    /\ hash.scheme = "bcrypt"
    /\ hash.digest = Digest(hash.salt, password)

\* ------------------------------------------------------------ the store
Min(a, b) == IF a < b THEN a ELSE b

get_documents(c, email, limit) ==
    LET m == SelectSeq(c, LAMBDA d : d.email = email)
    IN  SubSeq(m, 1, Min(limit, Len(m)))

\* the collection after the insert, and the identifier returned
create_document(c, doc) ==
    LET oid == Len(c) + 1
    IN  [coll |-> Append(c, [_id |-> oid] @@ doc), id |-> Str(oid)]

\* faulty variant: indexes the result list one too far
find_user_by_email_off_by_one(c, email) ==
    LET results == get_documents(c, email, 1)
    IN  IF Len(results) > 1 THEN results[2] ELSE None

find_user_by_email(c, email) ==
    LET results == get_documents(c, email, 1)
    IN  IF results # <<>> THEN results[1] ELSE None

\* ------------------------------------------------------------ responses
HTTPException(status_code, detail) ==
    [status |-> status_code, body |-> [detail |-> detail]]

Ok(body) == [status |-> 200, body |-> body]

EmailStrValid(email) == email \in ValidEmails

ValidationError == HTTPException(422, "value is not a valid email address")

\* the response_model of both auth routes: only these three fields go out
AuthResponse(d) ==
    [message |-> d.message,
     user_id |-> Get(d, "user_id", None),
     plan    |-> Get(d, "plan", None)]

\* the document built from the AuthUser schema
AuthUser(name, email, password_hash, plan, is_verified) ==
    [name |-> name, email |-> email, password_hash |-> password_hash,
     plan |-> plan, is_verified |-> is_verified]

\* ------------------------------------------------------------ POST /auth/signup
\* faulty variant: no lookup of an existing record
signup_check_no_lookup(c, payload) ==
    IF ~dbConfigured
    THEN [resp |-> HTTPException(500, "Database not configured"), ops |-> <<>>]
    ELSE [resp |-> None, ops |-> <<>>]

\* faulty variant: the lookup comes before the store check
signup_check_lookup_first(c, payload) ==
    LET existing == find_user_by_email(c, payload.email)
    IN  IF Truthy(existing)
        THEN [resp |-> HTTPException(400, "Email already registered"),
              ops  |-> <<"get_documents">>]
        ELSE IF ~dbConfigured
        THEN [resp |-> HTTPException(500, "Database not configured"),
              ops  |-> <<"get_documents">>]
        ELSE [resp |-> None, ops |-> <<"get_documents">>]

\* lines 74-79: the store check and the lookup; resp = None means "go on"
signup_check(c, payload) ==
    IF ~dbConfigured
    THEN [resp |-> HTTPException(500, "Database not configured"), ops |-> <<>>]
    ELSE LET existing == find_user_by_email(c, payload.email)
         IN  IF Truthy(existing)
             THEN [resp |-> HTTPException(400, "Email already registered"),
                   ops  |-> <<"get_documents">>]
             ELSE [resp |-> None, ops |-> <<"get_documents">>]

\* faulty variant: the document keeps the request's password
signup_insert_plaintext(c, payload, salt) ==
    LET password_hash == pwd_hash(payload.password, salt)
        doc == AuthUser(payload.name, payload.email, password_hash, "free", FALSE)
                   @@ [password |-> payload.password]
        created == create_document(c, doc)
    IN  [resp |-> Ok(AuthResponse([message |-> "Signup successful",
                                   user_id |-> created.id,
                                   plan    |-> "free"])),
         coll |-> created.coll,
         ops  |-> <<"create_document">>]

\* variant: an upsert keyed by email instead of an insert
signup_insert_upsert(c, payload, salt) ==
    LET password_hash == pwd_hash(payload.password, salt)
        doc == AuthUser(payload.name, payload.email, password_hash, "free", FALSE)
        hits == {i \in DOMAIN c : c[i].email = payload.email}
    IN  IF hits = {}
        THEN LET created == create_document(c, doc)
             IN  [resp |-> Ok(AuthResponse([message |-> "Signup successful",
                                            user_id |-> created.id,
                                            plan    |-> "free"])),
                  coll |-> created.coll,
                  ops  |-> <<"create_document">>]
        ELSE LET i == CHOOSE k \in hits : TRUE
             IN  [resp |-> Ok(AuthResponse([message |-> "Signup successful",
                                            user_id |-> Str(c[i]._id),
                                            plan    |-> "free"])),
                  coll |-> [c EXCEPT ![i] = [_id |-> c[i]._id] @@ doc],
                  ops  |-> <<"create_document">>]

\* faulty variant: the new account is marked verified
signup_insert_verified(c, payload, salt) ==
    LET password_hash == pwd_hash(payload.password, salt)
        doc == AuthUser(payload.name, payload.email, password_hash, "free", TRUE)
        created == create_document(c, doc)
    IN  [resp |-> Ok(AuthResponse([message |-> "Signup successful",
                                   user_id |-> created.id,
                                   plan    |-> "free"])),
         coll |-> created.coll,
         ops  |-> <<"create_document">>]

\* lines 81-90: hash, build the document, insert, answer
signup_insert(c, payload, salt) ==
    LET password_hash == pwd_hash(payload.password, salt)
        doc == AuthUser(payload.name, payload.email, password_hash, "free", FALSE)
        created == create_document(c, doc)
    IN  [resp |-> Ok(AuthResponse([message |-> "Signup successful",
                                   user_id |-> created.id,
                                   plan    |-> "free"])),
         coll |-> created.coll,
         ops  |-> <<"create_document">>]

signup(c, payload, salt) ==
    LET chk == signup_check(c, payload)
    IN  IF chk.resp # None
        THEN [resp |-> chk.resp, coll |-> c, ops |-> chk.ops]
        ELSE LET ins == signup_insert(c, payload, salt)
             IN  [resp |-> ins.resp, coll |-> ins.coll, ops |-> chk.ops \o ins.ops]

\* the route: the body is parsed into SignupRequest before the handler runs
post_signup(c, body, salt) ==
    IF ~EmailStrValid(body.email)
    THEN [resp |-> ValidationError, coll |-> c, ops |-> <<>>]
    ELSE signup(c, body, salt)

\* ------------------------------------------------------------ POST /auth/login
\* faulty variant: reads the identifier under the key "id"
login_wrong_id_key(c, payload) ==
    IF ~dbConfigured
    THEN [resp |-> HTTPException(500, "Database not configured"), ops |-> <<>>]
    ELSE LET user == find_user_by_email(c, payload.email)
         IN  IF ~Truthy(user)
             THEN [resp |-> HTTPException(401, "Invalid credentials"),
                   ops  |-> <<"get_documents">>]
             ELSE IF ~pwd_verify(payload.password, Get(user, "password_hash", EmptyHash))
             THEN [resp |-> HTTPException(401, "Invalid credentials"),
                   ops  |-> <<"get_documents">>]
             ELSE [resp |-> Ok(AuthResponse([message |-> "Login successful",
                                             user_id |-> Str(Get(user, "id", None)),
                                             plan    |-> Get(user, "plan", "free")])),
                   ops  |-> <<"get_documents">>]

\* faulty variant: an unknown email gets an answer of its own
login_user_not_found(c, payload) ==
    IF ~dbConfigured
    THEN [resp |-> HTTPException(500, "Database not configured"), ops |-> <<>>]
    ELSE LET user == find_user_by_email(c, payload.email)
         IN  IF ~Truthy(user)
             THEN [resp |-> HTTPException(404, "User not found"),
                   ops  |-> <<"get_documents">>]
             ELSE IF ~pwd_verify(payload.password, Get(user, "password_hash", EmptyHash))
             THEN [resp |-> HTTPException(401, "Invalid credentials"),
                   ops  |-> <<"get_documents">>]
             ELSE [resp |-> Ok(AuthResponse([message |-> "Login successful",
                                             user_id |-> Str(Get(user, "_id", None)),
                                             plan    |-> Get(user, "plan", "free")])),
                   ops  |-> <<"get_documents">>]

login(c, payload) ==
    IF ~dbConfigured
    THEN [resp |-> HTTPException(500, "Database not configured"), ops |-> <<>>]
    ELSE LET user == find_user_by_email(c, payload.email)
         IN  IF ~Truthy(user)
             THEN [resp |-> HTTPException(401, "Invalid credentials"),
                   ops  |-> <<"get_documents">>]
             ELSE IF ~pwd_verify(payload.password, Get(user, "password_hash", EmptyHash))
             THEN [resp |-> HTTPException(401, "Invalid credentials"),
                   ops  |-> <<"get_documents">>]
             ELSE [resp |-> Ok(AuthResponse([message |-> "Login successful",
                                             user_id |-> Str(Get(user, "_id", None)),
                                             plan    |-> Get(user, "plan", "free")])),
                   ops  |-> <<"get_documents">>]

post_login(c, body) ==
    IF ~EmailStrValid(body.email)
    THEN [resp |-> ValidationError, ops |-> <<>>]
    ELSE login(c, body)

\* ------------------------------------------------------------ GET /pricing
\* faulty variant: the popular mark sits on Business
get_pricing_business_popular ==
    [plans |-> <<
        [name |-> "Free", price |-> 0, period |-> "mo",
         features |-> <<"Basic analytics", "Community support", "Up to 3 projects">>],
        [name |-> "Pro", price |-> 19, period |-> "mo",
         features |-> <<"Unlimited projects", "Priority support",
                        "Team collaboration", "API access">>],
        [name |-> "Business", price |-> 49, period |-> "mo", popular |-> TRUE,
         features |-> <<"SSO & SAML", "Custom roles", "Audit logs",
                        "Dedicated support">>]
    >>]

get_pricing ==
    [plans |-> <<
        [name |-> "Free", price |-> 0, period |-> "mo",
         features |-> <<"Basic analytics", "Community support", "Up to 3 projects">>],
        [name |-> "Pro", price |-> 19, period |-> "mo", popular |-> TRUE,
         features |-> <<"Unlimited projects", "Priority support",
                        "Team collaboration", "API access">>],
        [name |-> "Business", price |-> 49, period |-> "mo",
         features |-> <<"SSO & SAML", "Custom roles", "Audit logs",
                        "Dedicated support">>]
    >>]

\* ------------------------------------------------------------ GET /
read_root == [message |-> "SaaS Landing Backend Running"]

\* ------------------------------------------------------------ GET /test
\* db.list_collection_names(): a collection exists once a document is in it
list_collection_names(c) == IF Len(c) > 0 THEN <<COLL>> ELSE <<>>

\* urlSet, nameSet: DATABASE_URL / DATABASE_NAME are set; raises: the store
\* call throws.  The status marks of the source are written in ASCII.
test_database(c, urlSet, nameSet, raises) ==
    LET response ==
            [backend |-> "[ok] Running",
             database |-> "[x] Not Available",
             database_url |-> IF urlSet THEN "[ok] Set" ELSE "[x] Not Set",
             database_name |-> IF nameSet THEN "[ok] Set" ELSE "[x] Not Set",
             connection_status |-> "Not Connected",
             collections |-> <<>>]
        names == list_collection_names(c)
    IN  IF ~dbConfigured THEN response
        ELSE IF raises
        THEN [response EXCEPT !.database = "[!] error",
                              !.connection_status = "Connected"]
        ELSE [response EXCEPT !.database = "[ok] Available",
                              !.connection_status = "Connected",
                              !.collections = SubSeq(names, 1, Min(10, Len(names)))]

\* ------------------------------------------------------------ state machine
Idle == [pc |-> "idle", req |-> None, resp |-> None]

\* what a successful signup adds to the history
Accept(acc, req, resp) ==
    IF resp.status = 200
    THEN acc \cup {[email |-> req.email, password |-> req.password,
                    user_id |-> resp.body.user_id]}
    ELSE acc

\* A store is persistent: it is empty, or already holds the record of a
\* signup handled by an earlier run of the service.
SeedBody == [name |-> "Alice", email |-> Email(1), password |-> <<1>>]
Seed == signup_insert(<<>>, SeedBody, 1)

Init ==
    /\ dbConfigured \in BOOLEAN
    /\ \/ coll = <<>> /\ accepted = {}
       \/ coll = Seed.coll /\ accepted = Accept({}, SeedBody, Seed.resp)
    /\ last = [req |-> [op |-> "none"], resp |-> None, ops |-> <<>>]
    /\ inflight = [w \in Workers |-> Idle]
    /\ started = 0

\* --- requests handled one at a time: each handler is one step
Signup(name, email, password, salt) ==
    LET body == [name |-> name, email |-> email, password |-> password]
        r == post_signup(coll, body, salt)
    IN  /\ coll' = r.coll
        /\ last' = [req |-> [op |-> "signup"] @@ body, resp |-> r.resp, ops |-> r.ops]
        /\ accepted' = Accept(accepted, body, r.resp)
        /\ UNCHANGED <<dbConfigured, inflight, started>>

Login(email, password) ==
    LET body == [email |-> email, password |-> password]
        r == post_login(coll, body)
    IN  /\ last' = [req |-> [op |-> "login"] @@ body, resp |-> r.resp, ops |-> r.ops]
        /\ UNCHANGED <<dbConfigured, coll, accepted, inflight, started>>

GetPricing ==
    /\ last' = [req |-> [op |-> "pricing"], resp |-> Ok(get_pricing), ops |-> <<>>]
    /\ UNCHANGED <<dbConfigured, coll, accepted, inflight, started>>

ReadRoot ==
    /\ last' = [req |-> [op |-> "root"], resp |-> Ok(read_root), ops |-> <<>>]
    /\ UNCHANGED <<dbConfigured, coll, accepted, inflight, started>>

TestDatabase(urlSet, nameSet, raises) ==
    /\ last' = [req |-> [op |-> "test"],
                resp |-> Ok(test_database(coll, urlSet, nameSet, raises)),
                ops |-> <<>>]
    /\ UNCHANGED <<dbConfigured, coll, accepted, inflight, started>>

Next ==
    \/ \E n \in Names, e \in RawEmails, p \in Passwords, s \in Salts : Signup(n, e, p, s)
    \/ \E e \in RawEmails, p \in Passwords : Login(e, p)
    \/ GetPricing
    \/ ReadRoot
    \/ \E u \in BOOLEAN, n \in BOOLEAN, x \in BOOLEAN : TestDatabase(u, n, x)

Spec == Init /\ [][Next]_vars

\* --- concurrent requests: a signup is two store calls, and other requests
\* --- may run between its lookup (line 77) and its insert (line 89)
Free(w) == inflight[w].pc \in {"idle", "done"}

Finish(w, req, resp, ops) ==
    /\ inflight' = [inflight EXCEPT ![w] = [pc |-> "done", req |-> req, resp |-> resp]]
    /\ last' = [req |-> req, resp |-> resp, ops |-> ops]

SignupFind(w, name, email, password) ==
    LET body == [name |-> name, email |-> email, password |-> password]
        req == [op |-> "signup"] @@ body
        chk == IF ~EmailStrValid(email)
               THEN [resp |-> ValidationError, ops |-> <<>>]
               ELSE signup_check(coll, body)
    IN  /\ Free(w)
        /\ started < MaxRequests
        /\ started' = started + 1
        /\ IF chk.resp # None
           THEN Finish(w, req, chk.resp, chk.ops)
           ELSE /\ inflight' = [inflight EXCEPT ![w] =
                                    [pc |-> "inserting", req |-> req, resp |-> None]]
                /\ UNCHANGED last
        /\ UNCHANGED <<dbConfigured, coll, accepted>>

SignupCreate(w, salt) ==
    LET req == inflight[w].req
        ins == signup_insert(coll, req, salt)
    IN  /\ inflight[w].pc = "inserting"
        /\ coll' = ins.coll
        /\ accepted' = Accept(accepted, req, ins.resp)
        /\ Finish(w, req, ins.resp, <<"get_documents">> \o ins.ops)
        /\ UNCHANGED <<dbConfigured, started>>

LoginBy(w, email, password) ==
    LET body == [email |-> email, password |-> password]
        r == post_login(coll, body)
    IN  /\ Free(w)
        /\ started < MaxRequests
        /\ started' = started + 1
        /\ Finish(w, [op |-> "login"] @@ body, r.resp, r.ops)
        /\ UNCHANGED <<dbConfigured, coll, accepted>>

NextConc ==
    \/ \E w \in Workers, n \in Names, e \in RawEmails, p \in Passwords :
           SignupFind(w, n, e, p)
    \/ \E w \in Workers, s \in Salts : SignupCreate(w, s)
    \/ \E w \in Workers, e \in RawEmails, p \in Passwords : LoginBy(w, e, p)

SpecConc == Init /\ [][NextConc]_vars

\* ================================================================ claims
Conflict == HTTPException(400, "Email already registered")
Unauthorized == HTTPException(401, "Invalid credentials")
ServiceUnavailable == HTTPException(500, "Database not configured")

HasRecord(c, email) == \E i \in DOMAIN c : c[i].email = email
Registered(email) == \E a \in accepted : a.email = email
\* the request handled last is an auth request whose body passed validation
LastIs(op) == last.req.op = op /\ (op \in {"signup", "login"} => last.req.email \in ValidEmails)

\* C1: with the store configured and requests handled one at a time, a signup
\* with an email that has no record succeeds ("Signup successful", plan
\* "free"), and every signup with an email that a signup succeeded with
\* before, whatever was handled in between, fails with 400 "Email already
\* registered".
C1_FirstSignupSucceedsLaterConflict ==
    [][(dbConfigured /\ last'.req.op = "signup" /\ last'.req.email \in ValidEmails)
        => /\ Registered(last'.req.email) => last'.resp = Conflict
           /\ ~HasRecord(coll, last'.req.email) =>
                 /\ last'.resp.status = 200
                 /\ last'.resp.body.message = "Signup successful"
                 /\ last'.resp.body.plan = "free"
           /\ Registered(last'.req.email) \/ ~HasRecord(coll, last'.req.email)]_vars

\* a second signup with a registered email, under another password, got Conflict
C1_Witness ==
    /\ dbConfigured
    /\ LastIs("signup")
    /\ last.resp = Conflict
    /\ \E a \in accepted : a.email = last.req.email /\ a.password # last.req.password
    /\ Len(coll) = 2

\* C2: with the store configured and requests handled one at a time, a login
\* with the email and password of a signup that succeeded earlier answers
\* "Login successful" with plan "free" and the non-empty user_id that the
\* signup returned.
C2_LoginAfterSignup ==
    (dbConfigured /\ LastIs("login")) =>
        \A a \in accepted :
            (a.email = last.req.email /\ a.password = last.req.password) =>
                /\ a.user_id # ""
                /\ last.resp = Ok([message |-> "Login successful",
                                   user_id |-> a.user_id,
                                   plan    |-> "free"])

\* the second registered user logged in
C2_Witness ==
    /\ LastIs("login")
    /\ last.resp.status = 200
    /\ Len(coll) = 2
    /\ last.resp.body.user_id = Str(2)

C4_NotConfigured ==
    [][~dbConfigured =>
        /\ coll' = coll
        /\ (last'.req.op \in {"signup", "login"} /\ last'.req.email \in ValidEmails)
              => last'.resp = ServiceUnavailable /\ last'.ops = <<>>]_vars

\* a signup with an already registered email got 500, not 400
C4_Witness ==
    /\ ~dbConfigured
    /\ LastIs("signup")
    /\ HasRecord(coll, last.req.email)
    /\ last.resp = ServiceUnavailable

\* C5: a stored record has exactly the fields _id, name, email,
\* password_hash, plan and is_verified, password_hash being the hash
\* function's output for the password of the signup that created it, and the
\* body of a signup or login response holds only a fixed message, an
\* identifier and a plan (or an error detail): neither the password nor its
\* hash.
UserFields == {"_id", "name", "email", "password_hash", "plan", "is_verified"}
AuthBodies ==
    {[detail |-> d] : d \in {"Database not configured", "Email already registered",
                             "Invalid credentials",
                             "value is not a valid email address"}}
    \cup {[message |-> m, user_id |-> Str(i), plan |-> "free"] :
             m \in {"Signup successful", "Login successful"}, i \in DOMAIN coll}

C5_NoPlaintextPassword ==
    /\ \A i \in DOMAIN coll :
          /\ DOMAIN coll[i] = UserFields
          /\ DOMAIN coll[i].password_hash = {"scheme", "salt", "digest"}
          /\ \E a \in accepted :
                /\ a.user_id = Str(coll[i]._id)
                /\ coll[i].password_hash = pwd_hash(a.password, coll[i].password_hash.salt)
    /\ last.req.op \in {"signup", "login"} => last.resp.body \in AuthBodies

\* a signup with a non-empty password succeeded and its record is stored
C5_Witness ==
    /\ LastIs("signup")
    /\ last.resp.status = 200
    /\ last.req.password # <<>>
    /\ \E i \in DOMAIN coll : Str(coll[i]._id) = last.resp.body.user_id

\* C6: a signup whose password is the empty string does not succeed, and no
\* stored record's password_hash is the hash of the empty string.
C6_EmptyPasswordRejected ==
    /\ (last.req.op = "signup" /\ last.req.password = <<>>) => last.resp.status # 200
    /\ \A i \in DOMAIN coll :
          coll[i].password_hash # pwd_hash(<<>>, coll[i].password_hash.salt)

\* C7: GET /pricing answers the same in every state: three plans, Free, Pro
\* and Business in this order, priced 0, 19 and 49, Pro alone marked popular.
C7_PricingFixed ==
    last.req.op = "pricing" =>
        LET plans == last.resp.body.plans
        IN  /\ last.resp.status = 200
            /\ Len(plans) = 3
            /\ <<plans[1].name, plans[2].name, plans[3].name>> = <<"Free", "Pro", "Business">>
            /\ <<plans[1].price, plans[2].price, plans[3].price>> = <<0, 19, 49>>
            /\ \A i \in 1..3 : Get(plans[i], "popular", FALSE) = (i = 2)

\* the catalogue was served without a store and with records in the database
C7_Witness ==
    /\ last.req.op = "pricing"
    /\ ~dbConfigured
    /\ Len(coll) > 0

\* C8: when each signup runs atomically, no two user records have the same
\* email.
C8_EmailUnique ==
    \A i, j \in DOMAIN coll : coll[i].email = coll[j].email => i = j

\* two users are registered and a further signup with one of the emails was refused
C8_Witness ==
    /\ Len(coll) = 2
    /\ last.req.op = "signup"
    /\ last.resp = Conflict

\* C9: when signups run concurrently, two signups with the same email that
\* both answered "Signup successful" got different user_ids, and the store
\* holds a record of that email under each of the two identifiers.
SignedUp(w) ==
    /\ inflight[w].pc = "done"
    /\ inflight[w].req.op = "signup"
    /\ inflight[w].resp.status = 200

C9_RaceStoresBoth ==
    \A v, w \in Workers :
        (v # w /\ SignedUp(v) /\ SignedUp(w)
         /\ inflight[v].req.email = inflight[w].req.email) =>
            /\ inflight[v].resp.body.user_id # inflight[w].resp.body.user_id
            /\ \A x \in {v, w} :
                  \E i \in DOMAIN coll :
                      /\ Str(coll[i]._id) = inflight[x].resp.body.user_id
                      /\ coll[i].email = inflight[x].req.email

\* both signups of one email succeeded; the store holds two records of it
C9_Witness ==
    \E v, w \in Workers :
        /\ v # w /\ SignedUp(v) /\ SignedUp(w)
        /\ inflight[v].req.email = inflight[w].req.email
        /\ inflight[v].resp.body.user_id # inflight[w].resp.body.user_id
        /\ Cardinality({i \in DOMAIN coll : coll[i].email = inflight[v].req.email}) = 2

\* C10: the collection changes only in a step that answers a signup with
\* success; that step appends one record with the request's name and email,
\* plan "free" and is_verified false and leaves the earlier records as they
\* are.  Every other request leaves the collection unchanged.
C10_OnlySignupAppends ==
    [][\/ coll' = coll /\ ~(last'.req.op = "signup" /\ last'.resp.status = 200)
       \/ /\ last'.req.op = "signup"
          /\ last'.resp.status = 200
          /\ Len(coll') = Len(coll) + 1
          /\ SubSeq(coll', 1, Len(coll)) = coll
          /\ LET d == coll'[Len(coll')]
             IN  /\ d.name = last'.req.name
                 /\ d.email = last'.req.email
                 /\ d.plan = "free"
                 /\ d.is_verified = FALSE]_vars

\* a signup was added to a store that already held a record
C10_Witness ==
    /\ last.req.op = "signup"
    /\ last.resp.status = 200
    /\ Len(coll) = 2
    /\ coll[2].email = last.req.email

====
